---- MODULE Spec2Model ----
(***************************************************************************)
(* AppIconKit: the asset-generation pipeline of IconGenerator.             *)
(*                                                                         *)
(* src/src/appiconkit.ts holds two versions of the class:                  *)
(*   lines   1-277  generateImageAssets + generateImages (resize executor),*)
(*                  a too-small icon source is a warning   ("lenient");    *)
(*   lines 278-551  generateImages + generateGenericImages, a too-small    *)
(*                  icon source is a rejection             ("strict").     *)
(* src/src/cli.ts builds the options of a request from the command line.   *)
(*                                                                         *)
(* basename, extname, split, slice, Number() and template literals are     *)
(* computed character by character, as the code computes them.  Numbers    *)
(* are exact fractions [n, d]; d = 0 is NaN.                               *)
(***************************************************************************)
EXTENDS Integers, Sequences, FiniteSets, TLC

\* ------------------------------------------------------------------ numbers

RECURSIVE GCD(_, _)
GCD(a, b) == IF b = 0 THEN a ELSE GCD(b, a % b)

Abs(i) == IF i < 0 THEN -i ELSE i

NaN == [n |-> 0, d |-> 0]

IsNaN(x) == x.d = 0

\* The fraction n/d in lowest terms, d > 0.
Norm(n, d) ==
  IF d = 0 THEN NaN
  ELSE LET g == GCD(Abs(n), Abs(d))
           s == IF d < 0 THEN -1 ELSE 1
       IN  [n |-> (s * n) \div g, d |-> (s * d) \div g]

Num(i) == [n |-> i, d |-> 1]

IsInteger(x) == x.d = 1

\* a * b
NumMul(a, b) == Norm(a.n * b.n, a.d * b.d)

\* a / b (b is never 0 where the code divides)
NumDiv(a, b) == Norm(a.n * b.d, a.d * b.n)

\* Jimp.AUTO
AUTO == Num(-1)

\* ------------------------------------------------------------------ strings

\* The i-th character of s.
Char(s, i) == SubSeq(s, i, i)

Digits == "0123456789"

IsDigit(c) == \E i \in 1..Len(Digits) : Char(Digits, i) = c

DigitVal(c) == (CHOOSE i \in 1..Len(Digits) : Char(Digits, i) = c) - 1

RECURSIVE Pow10(_)
Pow10(k) == IF k = 0 THEN 1 ELSE 10 * Pow10(k - 1)

\* The value of a string of digits.
RECURSIVE DigitsVal(_)
DigitsVal(s) ==
  IF s = "" THEN 0
  ELSE 10 * DigitsVal(SubSeq(s, 1, Len(s) - 1)) + DigitVal(Char(s, Len(s)))

\* The decimal digits of a natural number.
RECURSIVE NatToStr(_)
NatToStr(i) ==
  IF i < 10 THEN Char(Digits, i + 1)
  ELSE NatToStr(i \div 10) \o Char(Digits, (i % 10) + 1)

\* Index of the first c in s from i on, 0 when there is none.
RECURSIVE IndexFrom(_, _, _)
IndexFrom(s, c, i) ==
  IF i > Len(s) THEN 0 ELSE IF Char(s, i) = c THEN i ELSE IndexFrom(s, c, i + 1)

IndexOf(s, c) == IndexFrom(s, c, 1)

\* Index of the last c in s up to i, 0 when there is none.
RECURSIVE LastIndexFrom(_, _, _)
LastIndexFrom(s, c, i) ==
  IF i < 1 THEN 0 ELSE IF Char(s, i) = c THEN i ELSE LastIndexFrom(s, c, i - 1)

LastIndexOf(s, c) == LastIndexFrom(s, c, Len(s))

\* String.prototype.split(sep) for a one-character separator.
RECURSIVE Split(_, _)
Split(s, sep) ==
  LET i == IndexOf(s, sep)
  IN  IF i = 0 THEN <<s>>
      ELSE <<SubSeq(s, 1, i - 1)>> \o Split(SubSeq(s, i + 1, Len(s)), sep)

\* String.prototype.slice(0, -1)
SliceDropLast(s) == SubSeq(s, 1, Len(s) - 1)

\* String.prototype.toLowerCase() over the letters the inputs use.
UpperCase == "ABCDEFGHIJKLMNOPQRSTUVWXYZ"
LowerCase == "abcdefghijklmnopqrstuvwxyz"

LowerChar(c) ==
  IF \E i \in 1..Len(UpperCase) : Char(UpperCase, i) = c
  THEN Char(LowerCase, CHOOSE i \in 1..Len(UpperCase) : Char(UpperCase, i) = c)
  ELSE c

RECURSIVE ToLowerCase(_)
ToLowerCase(s) ==
  IF s = "" THEN "" ELSE LowerChar(Char(s, 1)) \o ToLowerCase(SubSeq(s, 2, Len(s)))

\* Number(s) for the strings the program meets: "", digits, digits.digits, with
\* an optional leading minus; anything else is NaN.
NumberOfUnsigned(s) ==
  LET dot  == IndexOf(s, ".")
      ip   == IF dot = 0 THEN s ELSE SubSeq(s, 1, dot - 1)
      fp   == IF dot = 0 THEN "" ELSE SubSeq(s, dot + 1, Len(s))
      ok   == /\ \A i \in 1..Len(ip) : IsDigit(Char(ip, i))
              /\ \A i \in 1..Len(fp) : IsDigit(Char(fp, i))
              /\ Len(ip) + Len(fp) > 0
  IN  IF ok THEN Norm(DigitsVal(ip) * Pow10(Len(fp)) + DigitsVal(fp), Pow10(Len(fp)))
      ELSE NaN

NumberOf(s) ==
  IF s = "" THEN Num(0)
  ELSE IF Char(s, 1) = "-"
       THEN LET u == NumberOfUnsigned(SubSeq(s, 2, Len(s)))
            IN  IF IsNaN(u) THEN NaN ELSE Norm(-u.n, u.d)
       ELSE NumberOfUnsigned(s)

\* `${x}` for a number: an integer prints its digits, a fraction with a
\* one-digit decimal expansion prints "i.f"; NaN prints "NaN".  The program
\* prints no other number (thirds only occur as resize widths, which are
\* never printed: every resize instruction carries a filename), so a longer
\* expansion is cut with a "~".
NumToStr(x) ==
  IF IsNaN(x) THEN "NaN"
  ELSE LET sign == IF x.n < 0 THEN "-" ELSE ""
           a    == Abs(x.n)
       IN  IF x.d = 1 THEN sign \o NatToStr(a)
           ELSE IF 10 % x.d = 0
                THEN sign \o NatToStr(a \div x.d) \o "."
                          \o NatToStr(((a % x.d) * 10) \div x.d)
                ELSE sign \o NatToStr(a \div x.d) \o ".~"

\* path.basename(p)
Basename(p) == SubSeq(p, LastIndexOf(p, "/") + 1, Len(p))

\* path.extname(p): from the last "." of the basename, "" when there is none
\* or when it is the basename's first character.
Extname(p) ==
  LET b == Basename(p)
      i == LastIndexOf(b, ".")
  IN  IF i <= 1 THEN "" ELSE SubSeq(b, i, Len(b))

\* path.basename(inputPath).split('.')[0]
FileStem(p) == Split(Basename(p), ".")[1]

\* path.join(a, b) for the paths the program joins (no "." or ".." segments)
PathJoin(a, b) == a \o "/" \o b

\* ------------------------------------------------------------------ inputs

\* Bound on the small source-image widths tried (1..MaxSrcWidth), next to the
\* widths the documentation and the size check name.
MaxSrcWidth == 4

UNDEFINED == "undefined"

\* An omitted numeric argument or option.
UNDEFINED_NUM == [n |-> 0, d |-> -1]

\* x ?? y
Coalesce(x, y) == IF x = UNDEFINED THEN y ELSE x

CoalesceNum(x, y) == IF x = UNDEFINED_NUM THEN y ELSE x

GeneratorTypes == {"icon", "image", "iconset", "imageset"}

IconPlatforms == {"ios", "iphone", "ipad", "watchos", "watch", "macos", "mac", "web"}

ImageFormats == {"bmp", "gif", "jpeg", "png", "tiff", "default"}

IconKinds == {"icon", "iconset"}

\* Requested @1x widths and heights: omitted, Jimp.AUTO, or a size.
WidthArgs == {UNDEFINED_NUM, AUTO, Num(160)}

HeightArgs == {UNDEFINED_NUM, AUTO, Num(120)}

GeneratorOptions ==
  [type : GeneratorTypes, platform : IconPlatforms, width : WidthArgs,
   height : HeightArgs, format : ImageFormats \cup {UNDEFINED}]

InputPaths == {"icon.png", "art/pic.v2.jpg", "logo"}

\* The caller's output path.
OutputPath == "out"

Dim(w, h) == [width |-> w, height |-> h]

\* Decoded sizes of the source image.
SourceImages ==
  {Dim(1024, 1024), Dim(1023, 1023), Dim(1024, 1023), Dim(1023, 1024), Dim(300, 600)}
    \cup {Dim(w, 600) : w \in 1..MaxSrcWidth}

NoImage == Dim(0, 0)

FileWrite(path, width, height) == [path |-> path, width |-> width, height |-> height]

NoWrite == FileWrite("", NaN, NaN)

\* ------------------------------------------------------------------ templates
\* config/<dir>/Contents.json and config/web/config.json are not among the
\* source files; they are modelled from the specification's data model: an
\* ordered list of variants, each a size "WxH", a scale "Nx" and pass-through
\* idiom metadata, without a filename.

Variant(size, scale, idiom) == [size |-> size, scale |-> scale, idiom |-> idiom]

PathDirs == {"ios", "watchos", "macos", "imageset"}

Templates ==
  [d \in PathDirs |->
     CASE d = "ios" ->
            <<Variant("60x60", "2x", "iphone"), Variant("83.5x83.5", "2x", "ipad"),
              Variant("1024x1024", "1x", "ios-marketing")>>
       [] d = "watchos" ->
            <<Variant("44x44", "2x", "watch"), Variant("1024x1024", "1x", "watch-marketing")>>
       [] d = "macos" ->
            <<Variant("16x16", "1x", "mac"), Variant("16x16", "2x", "mac")>>
       [] d = "imageset" ->
            <<Variant("40x30", "1x", "universal"), Variant("40x30", "2x", "universal"),
              Variant("40x30", "3x", "universal")>>]

WebConfig == [appleIconDimensions |-> <<180>>, favIconDimensions |-> <<32, 16>>]

\* ------------------------------------------------------------------ state

VARIABLES
  config,         \* require()'s module cache: directory -> images of Contents.json
  pc,             \* where the request is: idle, read, exec_read, exec, strict_write, done, rejected
  impl,           \* which version of IconGenerator runs: lenient | strict
  entry,          \* the public method that was called
  inputPath,
  type, platform, programWidth, programHeight, programFormat,
  requested,      \* options.width ?? Jimp.AUTO and options.height ?? Jimp.AUTO as the call gave them
  image,          \* the image decoded by the first Jimp.read of generateImageAssets
  decodes,        \* how many times Jimp.read decoded the source
  output,         \* the request's output directory
  dirs,           \* directories the request has made sure exist
  codeTxt,        \* lines of code.txt, <<>> while it is not written
  manifest,       \* images of the written Contents.json
  manifestWritten,
  resizeOptions,  \* the resize instructions handed to the executor
  k,              \* index of the variant whose write is awaited
  pending,        \* the write awaited: path and resize size
  written,        \* image files written, in order
  warned,         \* the too-small warning was logged
  error,          \* why the returned promise rejected, "" while it has not
  served,         \* requests this process has finished with before the current one
  cached          \* the module cache as it was when the current request began

vars ==
  <<config, pc, impl, entry, inputPath, type, platform, programWidth, programHeight,
    programFormat, requested, image, decodes, output, dirs, codeTxt, manifest,
    manifestWritten, resizeOptions, k, pending, written, warned, error, served, cached>>

Init ==
  /\ config = Templates
  /\ pc = "idle"
  /\ impl = ""
  /\ entry = ""
  /\ inputPath = ""
  /\ type = ""
  /\ platform = ""
  /\ programWidth = AUTO
  /\ programHeight = AUTO
  /\ programFormat = ""
  /\ requested = Dim(AUTO, AUTO)
  /\ image = NoImage
  /\ decodes = 0
  /\ output = ""
  /\ dirs = {}
  /\ codeTxt = <<>>
  /\ manifest = <<>>
  /\ manifestWritten = FALSE
  /\ resizeOptions = <<>>
  /\ k = 0
  /\ pending = NoWrite
  /\ written = <<>>
  /\ warned = FALSE
  /\ error = ""
  /\ served = 0
  /\ cached = Templates

\* ------------------------------------------------------------------ planning

MinIconSize == 1024

PlatformMap ==
  [p \in IconPlatforms |->
     CASE p \in {"ios", "iphone", "ipad"} -> "ios"
       [] p \in {"watchos", "watch"} -> "watchos"
       [] p \in {"macos", "mac"} -> "macos"
       [] p = "web" -> "web"]

\* const pathDir = type === 'icon' ? platformMap[platform] : 'imageset'
PathDirOf(t, p) == IF t = "icon" THEN PlatformMap[p] ELSE "imageset"

\* type === 'icon' && (image.getWidth() < 1024 || image.getHeight() < 1024)
TooSmall(t, img) == t = "icon" /\ (img.width < MinIconSize \/ img.height < MinIconSize)

\* The output directory of a non-web request.
OutputDirOf(t, fileName) ==
  IF t = "icon" \/ t = "iconset"
  THEN PathJoin(OutputPath, "AppIcon.appiconset")
  ELSE PathJoin(OutputPath, fileName \o ".imageset")

\* Number(imageConfig.scale.slice(0, -1))
ScaleOf(imageConfig) == NumberOf(SliceDropLast(imageConfig.scale))

\* sizes[i] of imageConfig.size.split('x'), as a number; a missing part is
\* Number(undefined), NaN.
SizePart(imageConfig, i) ==
  LET sizes == Split(imageConfig.size, "x")
  IN  IF i <= Len(sizes) THEN NumberOf(sizes[i]) ELSE NaN

\* Mutant of ThirdOf: the quotient is floored.
ThirdOf_Floored(bitmapWidth) == Num(bitmapWidth \div 3)

\* Mutant of ThirdOf: the source is taken for the @2x image.
ThirdOf_Half(bitmapWidth) == NumDiv(Num(bitmapWidth), Num(2))

\* programWidth = image.bitmap.width / 3
ThirdOf(bitmapWidth) == NumDiv(Num(bitmapWidth), Num(3))

\* Mutant of Scaled: the scale is left out.
Scaled_Unscaled(programX, scale) == programX

\* Mutant of Scaled: the sentinel is multiplied like any other number.
Scaled_NoAutoCheck(programX, scale) == NumMul(programX, scale)

\* (programX === Jimp.AUTO) ? Jimp.AUTO : programX * scale
Scaled(programX, scale) == IF programX = AUTO THEN AUTO ELSE NumMul(programX, scale)

\* Mutant of VariantStep: a width and height given in the request replace the
\* template's size for icons too.
VariantStep_RequestWins(t, imageConfig, pw, ph, bitmapWidth) ==
  LET scale == ScaleOf(imageConfig)
      pw2   == IF ph = AUTO /\ pw = AUTO THEN ThirdOf(bitmapWidth) ELSE pw
      width == IF (t = "icon" \/ t = "iconset") /\ pw = AUTO
               THEN NumMul(SizePart(imageConfig, 1), scale) ELSE Scaled(pw2, scale)
  IN  [width |-> width,
       height |-> IF (t = "icon" \/ t = "iconset") /\ ph = AUTO
                  THEN NumMul(SizePart(imageConfig, 2), scale) ELSE Scaled(ph, scale),
       fileNameSuffix |-> IF t = "icon" \/ t = "iconset"
                          THEN "-" \o NumToStr(width)
                          ELSE "@" \o NumToStr(scale) \o "x",
       programWidth |-> IF t = "icon" \/ t = "iconset" THEN pw ELSE pw2]

\* One pass of the loop body up to the file name suffix: the target size of
\* a variant, its suffix, and programWidth as the pass leaves it.
VariantStep(t, imageConfig, pw, ph, bitmapWidth) ==
  LET scale == ScaleOf(imageConfig)
  IN  IF t = "icon" \/ t = "iconset"
      THEN LET width == NumMul(SizePart(imageConfig, 1), scale)
           IN  [width |-> width,
                height |-> NumMul(SizePart(imageConfig, 2), scale),
                fileNameSuffix |-> "-" \o NumToStr(width),
                programWidth |-> pw]
      ELSE LET pw2 == IF ph = AUTO /\ pw = AUTO THEN ThirdOf(bitmapWidth) ELSE pw
           IN  [width |-> Scaled(pw2, scale),
                height |-> Scaled(ph, scale),
                fileNameSuffix |-> "@" \o NumToStr(scale) \o "x",
                programWidth |-> pw2]

\* Mutant of ExtNameOf: format 'default' is not told apart.
ExtNameOf_NoDefault(in, format) == "." \o format

\* let extName = path.extname(inputPath);
\* if (programFormat !== 'default') extName = `.${programFormat}`
ExtNameOf(in, format) == IF format # "default" THEN "." \o format ELSE Extname(in)

\* Mutant of SetFilename: an entry that has a filename keeps it.
SetFilename_KeepExisting(imageConfig, name) ==
  IF "filename" \in DOMAIN imageConfig THEN imageConfig
  ELSE [f \in DOMAIN imageConfig \cup {"filename"} |->
          IF f = "filename" THEN name ELSE imageConfig[f]]

\* imageConfig['filename'] = name
SetFilename(imageConfig, name) ==
  [f \in DOMAIN imageConfig \cup {"filename"} |->
     IF f = "filename" THEN name ELSE imageConfig[f]]

ResizeOption(width, height, filename, format) ==
  [width |-> width, height |-> height, filename |-> filename, format |-> format]

\* The passes of the loop over contents.images from variant i on, programWidth
\* being pw when pass i begins.
RECURSIVE LoopSteps(_, _, _, _, _, _)
LoopSteps(t, images, pw, ph, bitmapWidth, i) ==
  IF i > Len(images) THEN <<>>
  ELSE LET step == VariantStep(t, images[i], pw, ph, bitmapWidth)
       IN  <<step>> \o LoopSteps(t, images, step.programWidth, ph, bitmapWidth, i + 1)

\* The loop of generateImageAssets: contents is the loaded template itself
\* (let contents = config), each entry given its filename as it is visited;
\* one resize instruction per entry; programWidth as the loop leaves it.
PlanLoop(t, in, format, pw, ph, bitmapWidth, images) ==
  LET steps == LoopSteps(t, images, pw, ph, bitmapWidth, 1)
      newFileName(i) == FileStem(in) \o steps[i].fileNameSuffix
  IN  [contents |->
         [i \in 1..Len(images) |->
            SetFilename(images[i], newFileName(i) \o ExtNameOf(in, format))],
       resizeOptions |->
         [i \in 1..Len(images) |->
            ResizeOption(steps[i].width, steps[i].height, newFileName(i), format)],
       programWidth |->
         IF images = <<>> THEN pw ELSE steps[Len(images)].programWidth]

\* ------------------------------------------------------------------ executor

\* Mutant of ExecExtName: format 'default' is not told apart.
ExecExtName_NoDefault(option, extName) == "." \o Coalesce(option.format, "png")

\* newExtName of generateImages
ExecExtName(option, extName) ==
  IF option.format = "default" THEN extName ELSE "." \o Coalesce(option.format, "png")

\* newFileName of generateImages
ExecFileName(option, extName) ==
  IF option.filename # UNDEFINED
  THEN option.filename \o ExecExtName(option, extName)
  ELSE "Icon-" \o NumToStr(option.width) \o ExecExtName(option, extName)

\* Mutant of ExecWriteOf: the executor takes the last instruction of the list
\* whichever one it is handed.
ExecWriteOf_Last(in, out, option) ==
  LET last == resizeOptions[Len(resizeOptions)]
  IN  FileWrite(PathJoin(out, ExecFileName(last, Extname(in))), last.width, last.height)

ExecWriteOf(in, out, option) ==
  FileWrite(PathJoin(out, ExecFileName(option, Extname(in))), option.width, option.height)

\* ------------------------------------------------------------------ web

WebOption(prefix, dim) ==
  ResizeOption(Num(dim), Num(dim),
               prefix \o NumToStr(Num(dim)) \o "x" \o NumToStr(Num(dim)), "png")

WebOptions ==
  [i \in 1..Len(WebConfig.appleIconDimensions) |->
     WebOption("apple-touch-icon-", WebConfig.appleIconDimensions[i])]
  \o [i \in 1..Len(WebConfig.favIconDimensions) |->
     WebOption("favicon-", WebConfig.favIconDimensions[i])]

\* The <link> lines of code.txt, each by its href.
WebHtmlCode == [i \in 1..Len(WebOptions) |-> WebOptions[i].filename \o ".png"]

\* ------------------------------------------------------------------ requests

\* generateWebIconImages up to the executor's await of Jimp.read: the plan,
\* the directory and code.txt come before the source image is read.
WebStart(in) ==
  LET webOutputPath == PathJoin(OutputPath, FileStem(in))
  IN  /\ output' = webOutputPath
      /\ \E canMkdir \in BOOLEAN :
           IF canMkdir
           THEN /\ dirs' = dirs \cup {webOutputPath}
                /\ codeTxt' = WebHtmlCode
                /\ resizeOptions' = WebOptions
                /\ pc' = "exec_read"
                /\ error' = ""
           ELSE /\ pc' = "rejected"
                /\ error' = "cannot create directory"
                /\ UNCHANGED <<dirs, codeTxt, resizeOptions>>

\* generateImageAssets (lenient) and generateImages (strict) from the call to
\* their first await: the options are read, the template is chosen, and a web
\* request is handed to generateWebIconImages.
Begin(v, ent, in, options) ==
  /\ pc = "idle"
  /\ impl' = v
  /\ entry' = ent
  /\ inputPath' = in
  /\ type' = options.type
  /\ platform' = options.platform
  /\ programWidth' = CoalesceNum(options.width, AUTO)
  /\ programHeight' = CoalesceNum(options.height, AUTO)
  /\ programFormat' = Coalesce(options.format, "png")
  /\ requested' = Dim(CoalesceNum(options.width, AUTO), CoalesceNum(options.height, AUTO))
  /\ IF options.platform = "web"
     THEN WebStart(in)
     ELSE /\ pc' = "read"
          /\ UNCHANGED <<output, dirs, codeTxt, resizeOptions, error>>
  /\ UNCHANGED <<config, image, decodes, manifest, manifestWritten, k, pending,
                 written, warned, served, cached>>

Option(t, p, w, h, f) == [type |-> t, platform |-> p, width |-> w, height |-> h, format |-> f]

\* generateImageAssets(inputPath, outputPath, generatorOption?)
GenerateImageAssets ==
  /\ pc = "idle"
  /\ \E in \in InputPaths :
    \/ \E o \in GeneratorOptions : Begin("lenient", "generateImageAssets", in, o)
    \/ Begin("lenient", "generateImageAssets", in,
             Option("icon", "ios", UNDEFINED_NUM, UNDEFINED_NUM, UNDEFINED))

\* generateImages(inputPath, outputPath, generatorOption?) of the strict version
StrictGenerateImages ==
  /\ pc = "idle"
  /\ \E in \in InputPaths :
    \/ \E o \in GeneratorOptions : Begin("strict", "generateImages", in, o)
    \/ Begin("strict", "generateImages", in,
             Option("icon", "ios", UNDEFINED_NUM, UNDEFINED_NUM, "png"))

\* The options generateIconSet passes on.
IconSetOptions(v, p) ==
  Option("icon", Coalesce(p, "ios"), UNDEFINED_NUM, UNDEFINED_NUM,
         IF v = "strict" THEN "png" ELSE UNDEFINED)

\* generateIconSet(inputPath, outputPath, platform?)
GenerateIconSet ==
  /\ pc = "idle"
  /\ \E v \in {"lenient", "strict"}, in \in InputPaths, p \in IconPlatforms \cup {UNDEFINED} :
    Begin(v, "generateIconSet", in, IconSetOptions(v, p))

\* The options generateImageSet passes on.
ImageSetOptions(v, w, h, f) ==
  Option("icon", "ios", CoalesceNum(w, AUTO), CoalesceNum(h, AUTO),
         IF v = "strict" THEN Coalesce(f, "png") ELSE UNDEFINED)

\* generateImageSet(inputPath, outputPath, width?, height?) and, in the strict
\* version, generateImageSet(inputPath, outputPath, width?, height?, format?)
GenerateImageSet ==
  /\ pc = "idle"
  /\ \E in \in InputPaths, w \in WidthArgs, h \in HeightArgs :
    \/ Begin("lenient", "generateImageSet", in, ImageSetOptions("lenient", w, h, UNDEFINED))
    \/ \E f \in ImageFormats \cup {UNDEFINED} :
         Begin("strict", "generateImageSet", in, ImageSetOptions("strict", w, h, f))

\* ------------------------------------------------------------------ cli

\* Values of --type, --platform, --format, --width and --height: the
\* documented ones, one in capitals and one the program does not know; the
\* default of --width and --height is `${Jimp.AUTO}`.
CliTypes == GeneratorTypes \cup {"Image", "asset"}

CliPlatforms == IconPlatforms \cup {"iOS", "tvos"}

CliFormats == ImageFormats \cup {"JPEG", "webp"}

CliWidths == {NumToStr(AUTO), "160"}

CliHeights == {NumToStr(AUTO), "120"}

CliOptions ==
  [type : CliTypes, platform : CliPlatforms, format : CliFormats,
   width : CliWidths, height : CliHeights]

\* buildOptions(program), options being program.opts()
buildOptions(options) ==
  LET lowerType     == ToLowerCase(options.type)
      programType   == IF lowerType \in GeneratorTypes THEN lowerType ELSE "icon"
      lowerPlatform == ToLowerCase(options.platform)
      programPlatform == IF lowerPlatform \in IconPlatforms THEN lowerPlatform ELSE "ios"
      lowerFormat   == ToLowerCase(options.format)
      format1 == IF lowerFormat \notin ImageFormats \/ programType = "icon"
                 THEN "png" ELSE lowerFormat
      format2 == IF /\ programType = "image"
                    /\ programPlatform # "web"
                    /\ format1 # "jpeg"
                    /\ format1 # "png"
                 THEN "png" ELSE format1
  IN  Option(programType, programPlatform, NumberOf(options.width),
             NumberOf(options.height), format2)

\* cli.ts: generator.generateImages(input, output, buildOptions(program))
CliMain ==
  /\ pc = "idle"
  /\ \E in \in InputPaths, o \in CliOptions :
       Begin("strict", "cli", in, buildOptions(o))

\* Jimp.read(inputPath) of the main method rejects: the file is missing or
\* cannot be decoded.
ReadFail ==
  /\ pc = "read"
  /\ pc' = "rejected"
  /\ error' = "invalid input image"
  /\ UNCHANGED <<config, impl, entry, inputPath, type, platform, programWidth,
                 programHeight, programFormat, requested, image, decodes, output, dirs, codeTxt,
                 manifest, manifestWritten, resizeOptions, k, pending, written, warned, served, cached>>

\* generateImageAssets from the source image being decoded to the executor's
\* await of Jimp.read: the size check, the output directory, the loop over
\* the template, Contents.json.
LenientRead ==
  /\ pc = "read"
  /\ impl = "lenient"
  /\ \E img \in SourceImages, canMkdir \in BOOLEAN :
       \E out \in {OutputDirOf(type, FileStem(inputPath))},
          dir \in {PathDirOf(type, platform)} :
         \E plan \in {PlanLoop(type, inputPath, programFormat, programWidth,
                               programHeight, img.width, config[dir])} :
           /\ image' = img
           /\ decodes' = decodes + 1
           /\ warned' = TooSmall(type, img)
           /\ output' = out
           /\ IF canMkdir
              THEN /\ dirs' = dirs \cup {out}
                   /\ config' = [config EXCEPT ![dir] = plan.contents]
                   /\ resizeOptions' = plan.resizeOptions
                   /\ programWidth' = plan.programWidth
                   /\ manifest' = plan.contents
                   /\ manifestWritten' = TRUE
                   /\ pc' = "exec_read"
                   /\ error' = ""
              ELSE /\ pc' = "rejected"
                   /\ error' = "cannot create path"
                   /\ UNCHANGED <<dirs, config, resizeOptions, programWidth, manifest,
                                  manifestWritten>>
  /\ UNCHANGED <<impl, entry, inputPath, type, platform, programHeight, programFormat, requested,
                 codeTxt, k, pending, written, served, cached>>

\* The executor (generateImages, generateGenericImages) from its Jimp.read to
\* the first write it awaits.
ExecRead ==
  /\ pc = "exec_read"
  /\ \E readOk \in BOOLEAN, canMkdir \in BOOLEAN :
       IF ~readOk
       THEN /\ pc' = "rejected"
            /\ error' = "invalid input image"
            /\ UNCHANGED <<decodes, dirs, k, pending>>
       ELSE /\ decodes' = decodes + 1
            /\ IF output \in dirs \/ canMkdir
               THEN /\ dirs' = dirs \cup {output}
                    /\ error' = ""
                    /\ IF resizeOptions = <<>>
                       THEN pc' = "done" /\ UNCHANGED <<k, pending>>
                       ELSE /\ pc' = "exec"
                            /\ k' = 1
                            /\ pending' = ExecWriteOf(inputPath, output, resizeOptions[1])
               ELSE /\ pc' = "rejected"
                    /\ error' = "cannot create directory"
                    /\ UNCHANGED <<dirs, k, pending>>
  /\ UNCHANGED <<config, impl, entry, inputPath, type, platform, programWidth,
                 programHeight, programFormat, requested, image, output, codeTxt, manifest,
                 manifestWritten, resizeOptions, written, warned, served, cached>>

\* The executor's await of image.clone().resize(...).writeAsync(newPath) for
\* instruction k ends: the file is written and the loop goes on, or the
\* resize or the write failed and the promise rejects.
ExecWrite ==
  /\ pc = "exec"
  /\ \/ /\ written' = Append(written, pending)
        /\ IF k = Len(resizeOptions)
           THEN pc' = "done" /\ UNCHANGED <<k, pending>>
           ELSE /\ k' = k + 1
                /\ pending' = ExecWriteOf(inputPath, output, resizeOptions[k + 1])
                /\ pc' = "exec"
        /\ error' = ""
     \/ /\ pc' = "rejected"
        /\ error' = "write failed"
        /\ UNCHANGED <<written, k, pending>>
  /\ UNCHANGED <<config, impl, entry, inputPath, type, platform, programWidth,
                 programHeight, programFormat, requested, image, decodes, output, dirs, codeTxt,
                 manifest, manifestWritten, resizeOptions, warned, served, cached>>

\* The write the strict loop awaits for variant i, and programWidth after
\* the pass.
StrictPass(i) ==
  LET imageConfig == config[PathDirOf(type, platform)][i]
      step == VariantStep(type, imageConfig, programWidth, programHeight, image.width)
      newFileName == FileStem(inputPath) \o step.fileNameSuffix
                       \o ExtNameOf(inputPath, programFormat)
  IN  [write |-> FileWrite(PathJoin(output, newFileName), step.width, step.height),
       filename |-> newFileName,
       programWidth |-> step.programWidth]

\* generateImages of the strict version from the source image being decoded
\* to the first write it awaits: the size check, mkdirSync, the first pass.
StrictRead ==
  /\ pc = "read"
  /\ impl = "strict"
  /\ \E img \in SourceImages, canMkdir \in BOOLEAN :
       \E out \in {OutputDirOf(type, FileStem(inputPath))},
          images \in {config[PathDirOf(type, platform)]} :
         \E step \in {VariantStep(type, images[1], programWidth, programHeight, img.width)} :
         \E name \in {FileStem(inputPath) \o step.fileNameSuffix
                        \o ExtNameOf(inputPath, programFormat)} :
           /\ image' = img
           /\ decodes' = decodes + 1
           /\ IF TooSmall(type, img)
              THEN /\ pc' = "rejected"
                   /\ error' = "icon size too small"
                   /\ UNCHANGED <<output, dirs, programWidth, k, pending, manifest,
                                  manifestWritten>>
              ELSE /\ output' = out
                   /\ IF canMkdir /\ out \notin dirs
                      THEN /\ dirs' = dirs \cup {out}
                           /\ error' = ""
                           /\ IF images = <<>>
                              THEN /\ manifest' = images
                                   /\ manifestWritten' = TRUE
                                   /\ pc' = "done"
                                   /\ UNCHANGED <<programWidth, k, pending>>
                              ELSE /\ programWidth' = step.programWidth
                                   /\ k' = 1
                                   /\ pending' = FileWrite(PathJoin(out, name),
                                                           step.width, step.height)
                                   /\ pc' = "strict_write"
                                   /\ UNCHANGED <<manifest, manifestWritten>>
                      ELSE /\ pc' = "rejected"
                           /\ error' = "mkdir failed"
                           /\ UNCHANGED <<dirs, programWidth, k, pending, manifest,
                                          manifestWritten>>
  /\ UNCHANGED <<config, impl, entry, inputPath, type, platform, programHeight,
                 programFormat, requested, codeTxt, resizeOptions, written, warned, served, cached>>

\* The strict loop's await of writeAsync for variant k ends: the file is
\* written, the template entry gets its filename, and the loop goes on to the
\* next variant or writes Contents.json; or the promise rejects.
StrictWrite ==
  /\ pc = "strict_write"
  /\ LET dir == PathDirOf(type, platform)
         annotated == [config EXCEPT
                         ![dir][k] = SetFilename(@, Basename(pending.path))]
     IN  \/ /\ written' = Append(written, pending)
            /\ config' = annotated
            /\ error' = ""
            /\ IF k = Len(config[dir])
               THEN /\ manifest' = annotated[dir]
                    /\ manifestWritten' = TRUE
                    /\ pc' = "done"
                    /\ UNCHANGED <<k, pending, programWidth>>
               ELSE /\ k' = k + 1
                    /\ pending' = StrictPass(k + 1).write
                    /\ programWidth' = StrictPass(k + 1).programWidth
                    /\ pc' = "strict_write"
                    /\ UNCHANGED <<manifest, manifestWritten>>
         \/ /\ pc' = "rejected"
            /\ error' = "write failed"
            /\ UNCHANGED <<written, config, k, pending, programWidth, manifest,
                           manifestWritten>>
  /\ UNCHANGED <<impl, entry, inputPath, type, platform, programHeight, programFormat, requested,
                 image, decodes, output, dirs, codeTxt, resizeOptions, warned, served, cached>>

Next ==
  \/ GenerateImageAssets
  \/ StrictGenerateImages
  \/ GenerateIconSet
  \/ GenerateImageSet
  \/ CliMain
  \/ ReadFail
  \/ LenientRead
  \/ StrictRead
  \/ ExecRead
  \/ ExecWrite
  \/ StrictWrite

Spec == Init /\ [][Next]_vars

\* ------------------------------------------------------------------ requests in sequence

MaxRequests == 2

\* The requests of a process that serves several, one after the other.
SeqInputPaths == {"icon.png", "art/pic.v2.jpg"}

SeqOptions ==
  [type : {"icon", "image", "iconset"}, platform : {"ios", "web"},
   width : {UNDEFINED_NUM, Num(160)}, height : {UNDEFINED_NUM},
   format : {UNDEFINED, "default", "jpeg"}]

\* A call of the main method of the version of the class the process has
\* loaded.
SeqRequest ==
  /\ pc = "idle"
  /\ \E v \in {"lenient", "strict"}, in \in SeqInputPaths, o \in SeqOptions :
       /\ served = 0 \/ v = impl
       /\ Begin(v, IF v = "lenient" THEN "generateImageAssets" ELSE "generateImages", in, o)

\* The promise of a request has settled and the caller goes on to its next
\* call, with an empty output location: require() keeps the templates it has
\* loaded, everything else belongs to the call.
NextRequest ==
  /\ pc \in {"done", "rejected"}
  /\ served + 1 < MaxRequests
  /\ served' = served + 1
  /\ cached' = config
  /\ pc' = "idle"
  /\ entry' = ""
  /\ inputPath' = ""
  /\ type' = ""
  /\ platform' = ""
  /\ programWidth' = AUTO
  /\ programHeight' = AUTO
  /\ programFormat' = ""
  /\ requested' = Dim(AUTO, AUTO)
  /\ image' = NoImage
  /\ decodes' = 0
  /\ output' = ""
  /\ dirs' = {}
  /\ codeTxt' = <<>>
  /\ manifest' = <<>>
  /\ manifestWritten' = FALSE
  /\ resizeOptions' = <<>>
  /\ k' = 0
  /\ pending' = NoWrite
  /\ written' = <<>>
  /\ warned' = FALSE
  /\ error' = ""
  /\ UNCHANGED <<config, impl>>

SeqNext ==
  \/ SeqRequest
  \/ NextRequest
  \/ ReadFail
  \/ LenientRead
  \/ StrictRead
  \/ ExecRead
  \/ ExecWrite
  \/ StrictWrite

SpecSeq == Init /\ [][SeqNext]_vars

\* ------------------------------------------------------------------ properties

\* The variants of the template file a non-web request loads, as shipped.
TemplateOf(t, p) == Templates[PathDirOf(t, p)]

\* The targets decided so far, each with the index of its variant: the resize
\* instructions, the write awaited, the files written.
Targets ==
  {<<i, resizeOptions[i].width, resizeOptions[i].height>> : i \in 1..Len(resizeOptions)}
    \cup {<<i, written[i].width, written[i].height>> : i \in 1..Len(written)}
    \cup (IF pc \in {"exec", "strict_write"}
          THEN {<<k, pending.width, pending.height>>} ELSE {})

\* The file names decided so far: of the manifest, of the write awaited, of
\* the files written.
OutputNames ==
  (IF manifestWritten THEN {manifest[i].filename : i \in 1..Len(manifest)} ELSE {})
    \cup {Basename(written[i].path) : i \in 1..Len(written)}
    \cup (IF pc \in {"exec", "strict_write"} THEN {Basename(pending.path)} ELSE {})

IconKind == type \in IconKinds

ImageKind == type \in {"image", "imageset"}

\* C1: for a request of kind icon, whatever format is requested, every
\* resize instruction carries format png and every output file and manifest
\* filename has the extension .png.
C1_IconAlwaysPng ==
  type = "icon" =>
    /\ \A i \in 1..Len(resizeOptions) : resizeOptions[i].format = "png"
    /\ \A name \in OutputNames : Extname(name) = ".png"

\* C2: generateImageSet generates an image set: the output directory is
\* <outputPath>/<basename>.imageset, the variants are those of the imageset
\* template, and the @1x variant is resized to the width and height given (one
\* that is missing stays auto).
C2_ImageSetIsAnImageSet ==
  (entry = "generateImageSet" /\ output \in dirs) =>
    /\ output = PathJoin(OutputPath, FileStem(inputPath) \o ".imageset")
    /\ manifestWritten =>
         /\ Len(manifest) = Len(Templates["imageset"])
         /\ \A i \in 1..Len(manifest) :
              /\ manifest[i].scale = Templates["imageset"][i].scale
              /\ manifest[i].idiom = Templates["imageset"][i].idiom
    /\ \A tg \in Targets :
         Templates["imageset"][tg[1]].scale = "1x" =>
           /\ requested.width # AUTO => tg[2] = requested.width
           /\ requested.height # AUTO => tg[3] = requested.height
           /\ (requested.width = AUTO /\ requested.height # AUTO) => tg[2] = AUTO
           /\ (requested.height = AUTO /\ requested.width # AUTO) => tg[3] = AUTO

\* The scale factor of variant i of the request's template, read off its
\* scale suffix.
FactorOf(i) == NumberOf(SliceDropLast(TemplateOf(type, platform)[i].scale))

\* The i-th number of the size string of variant v.
SizeNumber(v, i) == NumberOf(Split(v.size, "x")[i])

\* x = a * b, a product without rounding
IsProduct(x, a, b) == ~IsNaN(x) /\ x.n * a.d * b.d = a.n * b.n * x.d

\* C3: for kind icon or iconset on a non-web platform, the target width of
\* every variant is the first number of its size string times its scale
\* factor, the target height the second number times the factor, both
\* integers, whatever width and height the request gives; "60x60" at "2x" is
\* 120x120.
C3_IconSizeTimesScale ==
  (IconKind /\ platform # "web") =>
    \A tg \in Targets :
      LET v == TemplateOf(type, platform)[tg[1]]
      IN  /\ IsProduct(tg[2], SizeNumber(v, 1), FactorOf(tg[1]))
          /\ IsProduct(tg[3], SizeNumber(v, 2), FactorOf(tg[1]))
          /\ IsInteger(tg[2]) /\ IsInteger(tg[3])
          /\ (v.size = "60x60" /\ v.scale = "2x") => (tg[2] = Num(120) /\ tg[3] = Num(120))

\* An icon request that gave a width and a height has written its files, the
\* 83.5-point variant at 2x as 167x167.
C3_Witness ==
  /\ pc = "done"
  /\ type = "icon"
  /\ platform = "ipad"
  /\ requested = Dim(Num(160), Num(120))
  /\ Len(written) = 3
  /\ written[1].width = Num(120) /\ written[1].height = Num(120)
  /\ written[2].width = Num(167) /\ written[2].height = Num(167)

\* C4: for kind image or imageset with both width w and height h given, the
\* target of every variant with scale factor s is exactly (w*s, h*s); w = 160
\* and h = 120 give 160x120, 320x240, 480x360 in template order.
C4_BothGivenExact ==
  (ImageKind /\ platform # "web" /\ requested.width # AUTO /\ requested.height # AUTO) =>
    /\ \A tg \in Targets :
         /\ IsProduct(tg[2], requested.width, FactorOf(tg[1]))
         /\ IsProduct(tg[3], requested.height, FactorOf(tg[1]))
    /\ (pc = "done" /\ requested = Dim(Num(160), Num(120))) =>
         [i \in 1..Len(written) |-> <<written[i].width, written[i].height>>]
           = << <<Num(160), Num(120)>>, <<Num(320), Num(240)>>, <<Num(480), Num(360)>> >>

\* An image request with width 160 and height 120 has written its three files.
C4_Witness ==
  /\ pc = "done"
  /\ type = "image"
  /\ platform = "ios"
  /\ requested = Dim(Num(160), Num(120))
  /\ Len(written) = 3
  /\ written[3].width = Num(480) /\ written[3].height = Num(360)

\* The targets of the variants whose scale suffix is sfx.
TargetsAt(sfx) == {tg \in Targets : TemplateOf(type, platform)[tg[1]].scale = sfx}

BothAuto == requested.width = AUTO /\ requested.height = AUTO

\* C5 as stated: for kind image or imageset with width and height both auto,
\* the @1x target width is floor(W / 3), W the source width, and the @1x
\* target height is auto.
C5_FlooredThird ==
  (ImageKind /\ platform # "web" /\ BothAuto) =>
    \A tg \in TargetsAt("1x") : tg[2] = Num(image.width \div 3) /\ tg[3] = AUTO

\* C5 as amended: for kind image or imageset with width and height both auto,
\* the @1x target width is W / 3 exactly, not floored (a fraction when 3 does
\* not divide W), and the @1x target height is auto; a 300x600 source gives a
\* width of 100.
C5_ExactThird ==
  (ImageKind /\ platform # "web" /\ BothAuto) =>
    \A tg \in TargetsAt("1x") :
      /\ ~IsNaN(tg[2])
      /\ 3 * tg[2].n = image.width * tg[2].d
      /\ tg[3] = AUTO
      /\ image.width = 300 => tg[2] = Num(100)
      /\ tg[2] = Num(image.width \div 3) <=> image.width % 3 = 0

\* An image request with nothing given has written its @1x file from a source
\* 1024 wide, at 1024/3.
C5_Witness ==
  /\ pc = "done"
  /\ type = "image"
  /\ platform = "ios"
  /\ BothAuto
  /\ image.width = 1024
  /\ written[1].width = [n |-> 1024, d |-> 3]
  /\ written[1].height = AUTO

\* C6: for kind image or imageset with neither width nor height given, the
\* @3x target width is the source width and the @2x target width two thirds
\* of it.
C6_SourceIsAt3x ==
  (ImageKind /\ platform # "web" /\ BothAuto) =>
    /\ \A tg \in TargetsAt("3x") : tg[2] = Num(image.width)
    /\ \A tg \in TargetsAt("2x") : ~IsNaN(tg[2]) /\ 3 * tg[2].n = 2 * image.width * tg[2].d

\* An imageset request with nothing given has written @2x and @3x from a
\* source 4 wide.
C6_Witness ==
  /\ pc = "done"
  /\ type = "imageset"
  /\ BothAuto
  /\ image.width = 4
  /\ written[2].width = [n |-> 8, d |-> 3]
  /\ written[3].width = Num(4)

\* C7: for kind image or imageset with exactly one of width and height given,
\* the other is auto in every target at every scale, and the given one is
\* multiplied by the scale.
C7_AutoStaysAuto ==
  (ImageKind /\ platform # "web") =>
    /\ (requested.width # AUTO /\ requested.height = AUTO) =>
         \A tg \in Targets :
           tg[3] = AUTO /\ IsProduct(tg[2], requested.width, FactorOf(tg[1]))
    /\ (requested.width = AUTO /\ requested.height # AUTO) =>
         \A tg \in Targets :
           tg[2] = AUTO /\ IsProduct(tg[3], requested.height, FactorOf(tg[1]))

\* An image request with only a height has written its @3x file.
C7_Witness ==
  /\ pc = "done"
  /\ type = "image"
  /\ platform = "mac"
  /\ requested = Dim(AUTO, Num(120))
  /\ Len(written) = 3
  /\ written[3].width = AUTO
  /\ written[3].height = Num(360)

\* The too-small signal: the warning of generateImageAssets, the rejection
\* of the strict generateImages.
TooSmallSignal == warned \/ error = "icon size too small"

\* C8: once the source is decoded, the too-small signal is raised exactly
\* when the kind is icon or iconset and the source is less than 1024 wide or
\* less than 1024 high; for image and imageset it is never raised.
C8_TooSmallSignal ==
  image # NoImage =>
    (TooSmallSignal <=> (IconKind /\ (image.width < 1024 \/ image.height < 1024)))

\* C9: the template a request loads is never changed by it: whatever the
\* request has done, the loaded template has the entries and fields it was
\* loaded with, and none has a filename.
C9_TemplateNeverChanged ==
  /\ config = Templates
  /\ \A d \in PathDirs : \A i \in 1..Len(config[d]) : "filename" \notin DOMAIN config[d][i]

\* C10: when a non-web request has completed, the written Contents.json has
\* as many entries as the template has variants, every entry has a
\* filename, and for every entry the executor wrote a file of exactly that
\* name into the output directory.
C10_ManifestMatchesFiles ==
  (pc = "done" /\ platform # "web") =>
    /\ manifestWritten
    /\ Len(manifest) = Len(TemplateOf(type, platform))
    /\ \A i \in 1..Len(manifest) :
         /\ "filename" \in DOMAIN manifest[i]
         /\ \E j \in 1..Len(written) :
              written[j].path = PathJoin(output, manifest[i].filename)

\* An image request with format default has completed: the manifest names
\* pic@2x.jpg and that file is written.
C10_Witness ==
  /\ pc = "done"
  /\ impl = "lenient"
  /\ type = "image"
  /\ platform = "ios"
  /\ programFormat = "default"
  /\ inputPath = "art/pic.v2.jpg"
  /\ manifest[2].filename = "pic@2x.jpg"
  /\ written[2].path = "out/pic.imageset/pic@2x.jpg"

\* C11: when a request is rejected because the source image is missing or
\* cannot be decoded, nothing has been created in the output location: no
\* directory, no Contents.json, no code.txt, no image.
C11_RejectedBeforeAnyOutput ==
  (pc = "rejected" /\ error = "invalid input image") =>
    /\ dirs = {}
    /\ ~manifestWritten
    /\ codeTxt = <<>>
    /\ written = <<>>

C13_CliAppleJpegOrPng ==
  (entry = "cli" /\ platform # "web") => programFormat \in {"jpeg", "png"}

\* The executor has been handed its instructions.
ExecutorRuns == resizeOptions # <<>>

\* s begins with prefix
StartsWith(s, prefix) == Len(prefix) <= Len(s) /\ SubSeq(s, 1, Len(prefix)) = prefix

\* file is the file of instruction option
IsFileOf(file, option) ==
  /\ file.width = option.width
  /\ file.height = option.height
  /\ StartsWith(file.path, PathJoin(output, option.filename \o "."))
       \/ file.path = PathJoin(output, option.filename)

\* C14: the executor processes the instructions in list order, one after
\* the other: the i-th file written is the file of instruction i, and the
\* write awaited is that of the instruction after the files written. When
\* the resize or write of instruction k fails the promise rejects with the
\* files of 1..k-1 written, and from then on no file is written and none is
\* taken away.
C14_InOrderNoRollback ==
  /\ [](ExecutorRuns =>
         /\ Len(written) <= Len(resizeOptions)
         /\ \A i \in 1..Len(written) : IsFileOf(written[i], resizeOptions[i])
         /\ pc = "exec" =>
              Len(written) = k - 1 /\ IsFileOf(pending, resizeOptions[k])
         /\ error = "write failed" => pc = "rejected" /\ Len(written) = k - 1)
  /\ [][/\ Len(written') >= Len(written)
        /\ \A i \in 1..Len(written) : written'[i] = written[i]
        /\ pc = "rejected" => written' = written]_vars

\* The write of the second of three instructions failed: the first file is
\* there and nothing else.
C14_Witness ==
  /\ ExecutorRuns
  /\ pc = "rejected"
  /\ error = "write failed"
  /\ Len(resizeOptions) = 3
  /\ k = 2
  /\ Len(written) = 1

\* C15: a request decodes the source image at most once, and a request
\* that completed decoded it exactly once.
C15_DecodedOnce ==
  /\ decodes <= 1
  /\ pc = "done" => decodes = 1

\* The manifest the current request writes when it runs alone in a fresh
\* process: the loop over the template as shipped.
FreshManifest ==
  PlanLoop(type, inputPath, programFormat, requested.width, requested.height,
           image.width, TemplateOf(type, platform)).contents

\* C16: the Contents.json a request writes is the one it would write alone
\* in a fresh process, whatever requests the process served before, the
\* same request included: same entries, same filenames, same order, every
\* filename made from the request's own input file.
C16_ManifestOfRequestAlone ==
  (manifestWritten /\ platform # "web") =>
    /\ manifest = FreshManifest
    /\ \A i \in 1..Len(manifest) :
         StartsWith(manifest[i].filename, FileStem(inputPath))

\* A second request has completed on a template that held the filenames of
\* the first, made from another input file.
C16_Witness ==
  /\ served = 1
  /\ pc = "done"
  /\ manifestWritten
  /\ type = "image"
  /\ inputPath = "art/pic.v2.jpg"
  /\ "filename" \in DOMAIN cached["imageset"][1]
  /\ cached["imageset"][1].filename = "icon@1x.jpeg"
  /\ manifest[1].filename = "pic@1x.jpg"

====
